---- MODULE Spec2Model ----
(***************************************************************************)
(* Model of csrc/quantization/fp8/amd/gemm_kernel.cu: the static scratch   *)
(* buffer (workspace, workspace_size), create_workspace and fp8_mm.        *)
(*                                                                         *)
(* The vendor library (hipMalloc, hipblaslt_ext::Gemm, getAlgosFromIndex)  *)
(* is the environment: each call into it returns a status, and the lists   *)
(* it fills, chosen nondeterministically.  fp8_mm advances from one vendor *)
(* call to the next (pc); every step is one statement of the source with   *)
(* the macro wrapped around it.                                            *)
(*                                                                         *)
(* Number representation.  Tensor sizes, strides and padding_size are      *)
(* int64_t values small enough to be written as integers.  A size_t is     *)
(* carried as the two's-complement signed reading of its 64 bits (so the   *)
(* value (size_t)(-1) * 1024 is written -1024); comparisons on it go       *)
(* through ULt.  algo_idx is an int64_t whose narrowing to int matters: it *)
(* is carried as [hi, lo], standing for hi * 2^32 + lo with lo the value   *)
(* of its low 32 bits read as an int.                                      *)
(***************************************************************************)
EXTENDS Integers, Sequences, FiniteSets, TLC

\* ------------------------------------------------------------- bounds
\* Tensor extents range over 1..MaxSize, strides over 1..MaxSize + 1.
MaxSize == 2
\* padding_size ranges over 0..MaxPad.
MaxPad == 1
\* The low word of algo_idx, and the indices the library knows, range over
\* 0..MaxAlgo and 1..MaxAlgo.
MaxAlgo == 2
\* The high word of algo_idx ranges over 0..MaxHi.
MaxHi == 1
\* The device has room for MaxAllocs scratch buffers; hipMalloc fails beyond.
MaxAllocs == 2

VARIABLES
    env,             \* HIPBLASLT_WORKSPACE_SIZE as getenv returns it
    workspace,       \* static void* workspace: 0 is nullptr, i > 0 is buffers[i]
    workspace_size,  \* static size_t workspace_size
    buffers,         \* device allocations made by hipMalloc, by size; none is freed
    proc,            \* "running", "exited" (exit), "aborted" (assert), "crashed"
    pc,              \* position of the thread inside fp8_mm, "idle" outside
    frame            \* arguments and locals of the fp8_mm call in progress

vars == <<env, workspace, workspace_size, buffers, proc, pc, frame>>

\* ------------------------------------------------ statuses and pointers
hipSuccess == "hipSuccess"
hipErrorOutOfMemory == "hipErrorOutOfMemory"
HIPBLAS_STATUS_SUCCESS == "HIPBLAS_STATUS_SUCCESS"
HIPBLAS_STATUS_FAILURE == "HIPBLAS_STATUS_INVALID_VALUE"
HipblasStatus == {HIPBLAS_STATUS_SUCCESS, HIPBLAS_STATUS_FAILURE}

nullptr == "nullptr"

\* Unsigned order on size_t values carried by their signed reading: the
\* non-negative readings come first, then the negative ones.
ULt(x, y) ==
    IF (x >= 0) = (y >= 0) THEN x < y ELSE x >= 0

ULe(x, y) == x = y \/ ULt(x, y)

\* ----------------------------------------------------------- std::stoi
IntMax == 2147483647

Digits == {"0", "1", "2", "3", "4", "5", "6", "7", "8", "9"}

DigitVal(c) ==
    CASE c = "0" -> 0 [] c = "1" -> 1 [] c = "2" -> 2 [] c = "3" -> 3
      [] c = "4" -> 4 [] c = "5" -> 5 [] c = "6" -> 6 [] c = "7" -> 7
      [] c = "8" -> 8 [] c = "9" -> 9

RECURSIVE SkipSpace(_, _)
SkipSpace(s, i) ==
    IF i <= Len(s) /\ s[i] = " " THEN SkipSpace(s, i + 1) ELSE i

\* The digits of s from position i on, accumulated as a non-positive number
\* (so that INT_MIN is reached without leaving the range); "out_of_range"
\* once the value no longer fits an int of the given sign.
RECURSIVE Accumulate(_, _, _, _)
Accumulate(s, i, neg, acc) ==
    IF i > Len(s) \/ s[i] \notin Digits
    THEN [kind |-> "ok", val |-> IF neg THEN acc ELSE 0 - acc]
    ELSE LET d == DigitVal(s[i])
             lim == IntMax \div 10
             last == IF neg THEN (IntMax % 10) + 1 ELSE IntMax % 10
         IN IF acc > 0 - lim \/ (acc = 0 - lim /\ d <= last)
            THEN Accumulate(s, i + 1, neg, acc * 10 - d)
            ELSE [kind |-> "out_of_range", val |-> 0]

\* std::stoi(str): leading blanks, an optional sign, then decimal digits up
\* to the first other character.  No digit: std::invalid_argument; a value
\* outside int: std::out_of_range.
stoi(s) ==
    LET i == SkipSpace(s, 1)
        signed == i <= Len(s) /\ s[i] \in {"-", "+"}
        neg == i <= Len(s) /\ s[i] = "-"
        j == IF signed THEN i + 1 ELSE i
    IN IF j > Len(s) \/ s[j] \notin Digits
       THEN [kind |-> "invalid_argument", val |-> 0]
       ELSE Accumulate(s, j, neg, 0)

\* ----------------------------------------------- the scratch buffer
\* Values of the environment variable the model lets a process start with.
EnvValues ==
    { [set |-> FALSE, str |-> <<>>],
      [set |-> TRUE, str |-> <<"0">>],
      [set |-> TRUE, str |-> <<"-", "1">>],
      [set |-> TRUE, str |-> <<"2", "x">>],
      [set |-> TRUE, str |-> <<"x">>],
      [set |-> TRUE, str |-> <<"9", "9", "9", "9", "9", "9", "9", "9", "9", "9", "9">>] }

get_hipblaslt_workspace_size ==
    LET dflt == 32 * 1024
        r == IF env.set THEN stoi(env.str) ELSE [kind |-> "unset", val |-> 0]
        size == IF r.kind = "ok" THEN r.val ELSE dflt
    IN size * 1024

\* hipMalloc(&ptr, size) can succeed only while the device has room; a size
\* whose signed reading is negative is at least 2^63 bytes and never fits.
HipMallocStatuses(bufs, size) ==
    IF size >= 0 /\ Len(bufs) < MaxAllocs
    THEN {hipSuccess, hipErrorOutOfMemory}
    ELSE {hipErrorOutOfMemory}

\* One evaluation of hipMalloc(&workspace, workspace_size) with status st,
\* applied to the pair [ptr, bufs].
hipMalloc(s, size, st) ==
    IF st = hipSuccess
    THEN [ptr |-> Len(s.bufs) + 1, bufs |-> Append(s.bufs, size)]
    ELSE s

\* CHECK_HIP_ERROR(error): the macro's argument is pasted three times, once
\* in the test and twice in the fprintf of the failure branch, so a failing
\* expression is evaluated twice more before exit(EXIT_FAILURE).
CheckHipError(size) ==
    LET s0 == [ptr |-> workspace, bufs |-> buffers] IN
    \E st1 \in HipMallocStatuses(s0.bufs, size) :
        LET s1 == hipMalloc(s0, size, st1) IN
        IF st1 = hipSuccess
        THEN /\ workspace' = s1.ptr
             /\ buffers' = s1.bufs
             /\ proc' = proc
        ELSE \E st2 \in HipMallocStatuses(s1.bufs, size) :
               LET s2 == hipMalloc(s1, size, st2) IN
               \E st3 \in HipMallocStatuses(s2.bufs, size) :
                 LET s3 == hipMalloc(s2, size, st3) IN
                 /\ workspace' = s3.ptr
                 /\ buffers' = s3.bufs
                 /\ proc' = "exited"

create_workspace ==
    /\ proc = "running"
    /\ pc = "idle"
    /\ workspace_size' = get_hipblaslt_workspace_size
    /\ IF ULt(0, workspace_size')
       THEN CheckHipError(workspace_size')
       ELSE UNCHANGED <<workspace, buffers, proc>>
    /\ UNCHANGED <<env, pc, frame>>

\* ------------------------------------------------------------ tensors
kFloat8_e4m3fnuz == "float8_e4m3fnuz"
kFloat16 == "float16"
kBFloat16 == "bfloat16"
kFloat32 == "float32"

HIP_R_8F_E4M3_FNUZ == "HIP_R_8F_E4M3_FNUZ"
HIP_R_16BF == "HIP_R_16BF"
HIP_R_16F == "HIP_R_16F"
HIPBLAS_COMPUTE_32F == "HIPBLAS_COMPUTE_32F"
HIPBLAS_OP_N == "HIPBLAS_OP_N"
HIPBLAS_OP_T == "HIPBLAS_OP_T"

\* A torch::Tensor as fp8_mm sees it.  sizes and strides are indexed from 1
\* here: sizes[1] is size(0).
Tensor(dt, sz, st, ptr) ==
    [dtype |-> dt, sizes |-> sz, strides |-> st, data_ptr |-> ptr]

dim(x) == Len(x.sizes)

Max(x, y) == IF x >= y THEN x ELSE y

\* int64_t values whose width matters: hi * 2^32 + lo.
Int64(h, l) == [hi |-> h, lo |-> l]

\* static_cast<int>(v), the narrowing of `algoIndex[0] = algo_idx`.
NarrowToInt(v) == v.lo

\* The widening of an int to int64_t.
WidenInt(i) == Int64(0, i)

\* ---------------------------------------------------- fp8_mm, lines 77-96
\* TorchChecks with the slip of comparing a's inner extent to b's outer
\* extent without taking the padding off.
TorchChecksIgnoringPadding(a, b, result, padding_size) ==
    IF ~(a.dtype = kFloat8_e4m3fnuz /\ b.dtype = kFloat8_e4m3fnuz)
    THEN "The input tensors type should be float8_e4m3fnuz."
    ELSE IF ~(dim(a) = 2 /\ dim(b) = 2)
    THEN "Input tensors must be 2-D."
    ELSE IF ~(a.sizes[2] = b.sizes[1])
    THEN "a dim 1 must match b dim 0."
    ELSE IF ~(result.dtype = kFloat8_e4m3fnuz \/ result.dtype = kFloat16
              \/ result.dtype = kBFloat16)
    THEN "Only float16, bfloat16 or float8_e4m3fnuz are supported as the output dtype."
    ELSE ""

\* The four TORCH_CHECKs in order; the message of the first that fails, or
\* "" when all pass.  sizes are read only once both tensors are 2-D.
TorchChecks(a, b, result, padding_size) ==
    IF ~(a.dtype = kFloat8_e4m3fnuz /\ b.dtype = kFloat8_e4m3fnuz)
    THEN "The input tensors type should be float8_e4m3fnuz."
    ELSE IF ~(dim(a) = 2 /\ dim(b) = 2)
    THEN "Input tensors must be 2-D."
    ELSE IF ~(a.sizes[2] = b.sizes[1] - padding_size)
    THEN "a dim 1 must match b dim 0."
    ELSE IF ~(result.dtype = kFloat8_e4m3fnuz \/ result.dtype = kFloat16
              \/ result.dtype = kBFloat16)
    THEN "Only float16, bfloat16 or float8_e4m3fnuz are supported as the output dtype."
    ELSE ""

HipblasOutType(out_dtype) ==
    IF out_dtype = kFloat8_e4m3fnuz THEN HIP_R_8F_E4M3_FNUZ
    ELSE IF out_dtype = kBFloat16 THEN HIP_R_16BF
    ELSE HIP_R_16F

\* --------------------------------------------------- fp8_mm, lines 98-120
transpose_result == TRUE

\* The if/else-if chain on one operand's strides: "N" (flag set false), "T"
\* (flag set true) or "unusual" (the assert(false) branch).
StrideBranch(x) ==
    IF x.strides[1] = 1 /\ x.strides[2] >= Max(1, x.sizes[1]) THEN "N"
    ELSE IF x.strides[2] = 1 /\ x.strides[1] >= Max(1, x.sizes[2]) THEN "T"
    ELSE "unusual"

\* What the chain leaves behind.  In the unusual branch a build with
\* assertions aborts; a build with NDEBUG compiles the assert out, sets
\* nothing, and the flag is later read uninitialized: any value.
StrideCheck(x, ndebug) ==
    LET br == StrideBranch(x) IN
    IF br = "N" THEN {[stop |-> FALSE, transpose |-> FALSE]}
    ELSE IF br = "T" THEN {[stop |-> FALSE, transpose |-> TRUE]}
    ELSE IF ndebug THEN {[stop |-> FALSE, transpose |-> v] : v \in BOOLEAN}
    ELSE {[stop |-> TRUE, transpose |-> FALSE]}

\* -------------------------------------------------- fp8_mm, lines 122-179
\* The transpose flags after the swap of lines 122-130.
SwapFlags(ta, tb) ==
    IF transpose_result
    THEN [a |-> ~tb, b |-> ~ta]
    ELSE [a |-> ta, b |-> tb]

\* GemmDims with the slip of reading m and n from the unswapped operands.
GemmDimsUnswapped(a, b, padding_size) ==
    [m |-> a.sizes[1],
     k |-> b.sizes[1] - padding_size,
     n |-> b.sizes[2]]

\* m, n, k of lines 134-136, read from the swapped size arrays.
GemmDims(a, b, padding_size) ==
    LET a_sizes == IF transpose_result THEN b.sizes ELSE a.sizes
        b_sizes == IF transpose_result THEN a.sizes ELSE b.sizes
    IN [m |-> a_sizes[IF transpose_result THEN 2 ELSE 1],
        k |-> a_sizes[IF transpose_result THEN 1 ELSE 2] - padding_size,
        n |-> b_sizes[IF transpose_result THEN 1 ELSE 2]]

\* hipblaslt_ext::GemmInputs of lines 138-145 and 162-171.
GemmInputs(a, b, result, scale_a, scale_b, scale_result) ==
    [a |-> (IF transpose_result THEN b ELSE a).data_ptr,
     b |-> (IF transpose_result THEN a ELSE b).data_ptr,
     c |-> result.data_ptr,
     d |-> result.data_ptr,
     alpha |-> 1,
     beta |-> 0,
     scaleA |-> IF transpose_result THEN scale_a.data_ptr ELSE scale_a.data_ptr,
     scaleB |-> IF transpose_result THEN scale_b.data_ptr ELSE scale_b.data_ptr,
     scaleD |-> IF scale_result.has_value THEN scale_result.data_ptr ELSE nullptr]

\* The problem types the Gemm object is constructed with, lines 152-156.
GemmTypes(flags, out_type) ==
    [op_a |-> IF flags.a THEN HIPBLAS_OP_T ELSE HIPBLAS_OP_N,
     op_b |-> IF flags.b THEN HIPBLAS_OP_T ELSE HIPBLAS_OP_N,
     type_a |-> HIP_R_8F_E4M3_FNUZ,
     type_b |-> HIP_R_8F_E4M3_FNUZ,
     type_c |-> out_type,
     type_d |-> out_type,
     type_compute |-> HIPBLAS_COMPUTE_32F]

\* Leading dimensions and batch strides of lines 173-179, with the batch
\* count and the duplicated ldc / strideC arguments of the setProblem call.
GemmLayout(problem, d, padding_size) ==
    [batch_count |-> 1,
     lda |-> IF problem.op_a = HIPBLAS_OP_N THEN d.m ELSE d.k + padding_size,
     ldb |-> IF problem.op_b = HIPBLAS_OP_N THEN d.k ELSE d.n,
     ldc |-> d.m,
     ldd |-> d.m,
     strideA |-> d.m * (d.k + padding_size),
     strideB |-> d.n * d.k,
     strideC |-> d.m * d.n,
     strideD |-> d.m * d.n]

\* MaxWorkspaceBytes with the slip of advertising the configured size
\* instead of the size create_workspace recorded.
ConfiguredWorkspaceBytes == get_hipblaslt_workspace_size

\* gemmPref.setMaxWorkspaceBytes(workspace_size), line 151.
MaxWorkspaceBytes == workspace_size

\* ------------------------------------------------------- the call frame
NullTensor == Tensor("", <<>>, <<>>, nullptr)

NullOptional == [has_value |-> FALSE, data_ptr |-> nullptr]

CurrentStream == "current_stream"

\* An algorithm of the library is known to this code by its index only.
Algo(i) == [index |-> i]

getIndexFromAlgo(algo) == algo.index

\* What an out-of-bounds read of a vector element yields when it yields
\* anything: bytes the library never produced.
GarbageAlgo == Algo(0 - 1)

NullFrame ==
    [a |-> NullTensor, b |-> NullTensor, result |-> NullTensor,
     scale_a |-> NullTensor, scale_b |-> NullTensor,
     scale_result |-> NullOptional,
     algo_idx_arg |-> Int64(0, 0), padding_size |-> 0,
     error |-> "",
     transpose |-> [a |-> FALSE, b |-> FALSE],
     problem |-> GemmTypes([a |-> FALSE, b |-> FALSE], ""),
     dims |-> [m |-> 0, n |-> 0, k |-> 0],
     layout |-> GemmLayout(GemmTypes([a |-> FALSE, b |-> FALSE], ""),
                           [m |-> 0, n |-> 0, k |-> 0], 0),
     inputs |-> GemmInputs(NullTensor, NullTensor, NullTensor, NullTensor,
                           NullTensor, NullOptional),
     gemmPref |-> 0,
     stream |-> "",
     algo_idx |-> Int64(0, 0),
     ops |-> <<>>,
     failed |-> "",
     handed |-> <<>>,
     request |-> <<>>,
     heuristicResult |-> <<>>,
     heurRead |-> "none",
     algoIndex |-> <<>>,
     tmpAlgo |-> <<>>,
     init |-> <<>>,
     ran_on |-> <<>>,
     launched |-> 0]

ArgsFrame(a, b, result, scale_a, scale_b, scale_result, algo_idx, padding_size) ==
    [NullFrame EXCEPT !.a = a, !.b = b, !.result = result,
                      !.scale_a = scale_a, !.scale_b = scale_b,
                      !.scale_result = scale_result,
                      !.algo_idx_arg = algo_idx, !.algo_idx = algo_idx,
                      !.padding_size = padding_size]

\* fp8_mm from its entry to the statement before gemm.setProblem (lines
\* 68-179): the checks, the stride inference, the swap, and the locals the
\* vendor calls are made with.
fp8_mm(a, b, result, scale_a, scale_b, scale_result, algo_idx, padding_size) ==
    /\ proc = "running"
    /\ pc = "idle"
    /\ LET f0 == ArgsFrame(a, b, result, scale_a, scale_b, scale_result,
                           algo_idx, padding_size)
           err == TorchChecks(a, b, result, padding_size)
       IN IF err # ""
          THEN /\ frame' = [f0 EXCEPT !.error = err]
               /\ pc' = "raised"
               /\ proc' = proc
          ELSE \E ndebug \in BOOLEAN :
               \E cb \in StrideCheck(b, ndebug) :
               \E ca \in StrideCheck(a, ndebug) :
                 IF cb.stop \/ ca.stop
                 THEN /\ frame' = f0
                      /\ pc' = "strides"
                      /\ proc' = "aborted"
                 ELSE LET flags == SwapFlags(ca.transpose, cb.transpose)
                          d == GemmDims(a, b, padding_size)
                          problem == GemmTypes(flags, HipblasOutType(result.dtype))
                      IN /\ frame' =
                              [f0 EXCEPT
                                 !.transpose = [a |-> ca.transpose, b |-> cb.transpose],
                                 !.problem = problem,
                                 !.dims = d,
                                 !.layout = GemmLayout(problem, d, padding_size),
                                 !.inputs = GemmInputs(a, b, result, scale_a,
                                                       scale_b, scale_result),
                                 !.gemmPref = MaxWorkspaceBytes,
                                 !.stream = CurrentStream]
                         /\ pc' = "setProblem"
                         /\ proc' = proc
    /\ UNCHANGED <<env, workspace, workspace_size, buffers>>

\* ------------------------------------------------ the vendor-call steps
\* CHECK_HIPBLASLT_ERROR(error): how many times the macro evaluates its
\* argument.  The argument is pasted into the test and, in the failure
\* branch, twice more into the fprintf before exit(EXIT_FAILURE).
Evaluations(status) ==
    IF status = HIPBLAS_STATUS_SUCCESS THEN 1 ELSE 3

RECURSIVE Repeat(_, _)
Repeat(x, n) == IF n = 0 THEN <<>> ELSE <<x>> \o Repeat(x, n - 1)

\* A statement CHECK_HIPBLASLT_ERROR(op(...)) whose first evaluation
\* reports st: the frame afterwards.
Checked(f, op, st) ==
    [f EXCEPT !.ops = @ \o Repeat(op, Evaluations(st)),
              !.failed = IF st = HIPBLAS_STATUS_SUCCESS THEN @ ELSE op]

\* The arguments of gemm.setProblem(m, n, k, 1, lda, ldb, ldc, ldc, strideA,
\* strideB, strideC, strideC, epilogue, inputs, problem).
SetProblemArgs(f) ==
    [m |-> f.dims.m, n |-> f.dims.n, k |-> f.dims.k,
     layout |-> f.layout, inputs |-> f.inputs, problem |-> f.problem]

\* Lines 181-183.
SetProblem ==
    /\ proc = "running"
    /\ pc = "setProblem"
    /\ \E st \in HipblasStatus :
         /\ frame' = [Checked(frame, "setProblem", st) EXCEPT
                        !.handed = <<SetProblemArgs(frame)>>]
         /\ IF st = HIPBLAS_STATUS_SUCCESS
            THEN /\ pc' = IF frame.algo_idx = Int64(0, 0)
                          THEN "algoGetHeuristic" ELSE "getAlgosFromIndex"
                 /\ proc' = proc
            ELSE /\ pc' = pc
                 /\ proc' = "exited"
    /\ UNCHANGED <<env, workspace, workspace_size, buffers>>

request_solutions == 1

\* What algoGetHeuristic may leave in heuristicResult: at most the number
\* of solutions asked for, each an algorithm of the library.
HeuristicResults(requested) ==
    UNION { [1..n -> {[algo |-> Algo(i)] : i \in 1..MaxAlgo}] : n \in 0..requested }

\* Lines 184-193.  heuristicResult[0] is read (line 191) before the vector
\* is tested for emptiness (line 192).  On an empty vector the read is out
\* of bounds: it yields garbage and the TORCH_CHECK then raises, or, with a
\* bounds-checking standard library, the process aborts at the read.
AlgoGetHeuristic ==
    /\ proc = "running"
    /\ pc = "algoGetHeuristic"
    /\ \E st \in HipblasStatus :
         LET f1 == [Checked(frame, "algoGetHeuristic", st) EXCEPT
                      !.request = <<[requestedAlgoCount |-> request_solutions,
                                     maxWorkspaceBytes |-> frame.gemmPref]>>]
         IN IF st # HIPBLAS_STATUS_SUCCESS
            THEN /\ frame' = f1
                 /\ pc' = pc
                 /\ proc' = "exited"
            ELSE \E res \in HeuristicResults(request_solutions) :
                   IF res = <<>>
                   THEN \/ /\ frame' = [f1 EXCEPT !.heuristicResult = res,
                                                  !.heurRead = "out_of_bounds",
                                                  !.error = "No valid solution found!"]
                           /\ pc' = "raised"
                           /\ proc' = proc
                        \/ /\ frame' = [f1 EXCEPT !.heuristicResult = res,
                                                  !.heurRead = "out_of_bounds"]
                           /\ pc' = pc
                           /\ proc' = "aborted"
                   ELSE /\ frame' = [f1 EXCEPT
                                       !.heuristicResult = res,
                                       !.heurRead = "element",
                                       !.algo_idx = WidenInt(getIndexFromAlgo(res[1].algo))]
                        /\ pc' = "getAlgosFromIndex"
                        /\ proc' = proc
    /\ UNCHANGED <<env, workspace, workspace_size, buffers>>

\* What getAlgosFromIndex may leave in tmpAlgo for the one index asked:
\* the algorithm of that index, or nothing when the library has none.
AlgosFromIndex(algoIndex) ==
    {<<>>, <<[algo |-> Algo(algoIndex[1])]>>}

\* Lines 194-198.  algoIndex is a std::vector<int>: the int64_t algo_idx is
\* narrowed.  TORCH_CUDABLAS_CHECK evaluates its argument once and raises.
GetAlgosFromIndex ==
    /\ proc = "running"
    /\ pc = "getAlgosFromIndex"
    /\ LET algoIndex == <<NarrowToInt(frame.algo_idx)>>
           f1 == [frame EXCEPT !.algoIndex = algoIndex,
                               !.ops = Append(@, "getAlgosFromIndex")]
       IN \E st \in HipblasStatus :
            IF st # HIPBLAS_STATUS_SUCCESS
            THEN /\ frame' = [f1 EXCEPT !.failed = "getAlgosFromIndex",
                                        !.error = "CUDA error"]
                 /\ pc' = "raised"
            ELSE \E tmp \in AlgosFromIndex(algoIndex) :
                   /\ frame' = [f1 EXCEPT !.tmpAlgo = tmp]
                   /\ pc' = "initialize"
    /\ UNCHANGED <<env, workspace, workspace_size, buffers, proc>>

\* Line 200.  tmpAlgo[0] on an empty vector is a read through a null data
\* pointer: the process crashes, or the call goes on with garbage.
Initialize ==
    /\ proc = "running"
    /\ pc = "initialize"
    /\ \/ /\ frame.tmpAlgo = <<>>
          /\ proc' = "crashed"
          /\ UNCHANGED <<pc, frame>>
       \/ \E st \in HipblasStatus :
            LET algo == IF frame.tmpAlgo = <<>> THEN GarbageAlgo
                        ELSE frame.tmpAlgo[1].algo
                f1 == [Checked(frame, "initialize", st) EXCEPT
                         !.init = <<[algo |-> algo, workspace |-> workspace]>>]
            IN /\ frame' = f1
               /\ IF st = HIPBLAS_STATUS_SUCCESS
                  THEN pc' = "run" /\ proc' = proc
                  ELSE pc' = pc /\ proc' = "exited"
    /\ UNCHANGED <<env, workspace, workspace_size, buffers>>

\* The kernels gemm.run(stream) launches when it reports st.
Launches(st) == IF st = HIPBLAS_STATUS_SUCCESS THEN 1 ELSE 0

\* Line 201.  A failing gemm.run(stream) is evaluated twice more by the
\* macro, and each of those evaluations may launch.
Run ==
    /\ proc = "running"
    /\ pc = "run"
    /\ \E st \in HipblasStatus :
         LET f1 == [Checked(frame, "run", st) EXCEPT !.ran_on = <<frame.stream>>]
         IN IF st = HIPBLAS_STATUS_SUCCESS
            THEN /\ frame' = [f1 EXCEPT !.launched = @ + Launches(st)]
                 /\ pc' = "returned"
                 /\ proc' = proc
            ELSE \E st2 \in HipblasStatus, st3 \in HipblasStatus :
                   /\ frame' = [f1 EXCEPT !.launched =
                                   @ + Launches(st) + Launches(st2) + Launches(st3)]
                   /\ pc' = pc
                   /\ proc' = "exited"
    /\ UNCHANGED <<env, workspace, workspace_size, buffers>>

\* Line 202, or the propagation of the raised error: control is back with
\* the caller and the frame is gone.
Return ==
    /\ proc = "running"
    /\ pc \in {"returned", "raised"}
    /\ pc' = "idle"
    /\ frame' = NullFrame
    /\ UNCHANGED <<env, workspace, workspace_size, buffers, proc>>

\* ------------------------------------------------------------ the calls
InDtypes == {kFloat8_e4m3fnuz, kFloat16}

OutDtypes == {kFloat16, kBFloat16, kFloat8_e4m3fnuz, kFloat32}

Extents == 1..MaxSize

Strides == 1..(MaxSize + 1)

\* Strides of a contiguous tensor of the given sizes.
RowMajor(sz) ==
    IF Len(sz) = 1 THEN <<1>>
    ELSE IF Len(sz) = 2 THEN <<sz[2], 1>>
    ELSE <<sz[2] * sz[3], sz[3], 1>>

\* Strides of a 2-D tensor stored column by column.
ColMajor(sz) == <<1, sz[1]>>

Result(dt) == Tensor(dt, <<MaxSize, MaxSize>>, <<MaxSize, 1>>, "result")

ScaleA == Tensor(kFloat32, <<1>>, <<1>>, "scale_a")

ScaleB == Tensor(kFloat32, <<1>>, <<1>>, "scale_b")

ScaleResults ==
    {NullOptional, [has_value |-> TRUE, data_ptr |-> "scale_result"]}

Call(a, b, result, scale_result, algo_idx, padding_size) ==
    [a |-> a, b |-> b, result |-> result, scale_a |-> ScaleA, scale_b |-> ScaleB,
     scale_result |-> scale_result, algo_idx |-> algo_idx,
     padding_size |-> padding_size]

\* Calls that exercise the checks: contiguous operands of either dtype, 1-D,
\* 2-D (1 x k for a, j x 1 for b) and 3-D, every result dtype, every padding.
ValidationCalls ==
    { Call(Tensor(da, sa, RowMajor(sa), "a"), Tensor(db, sb, RowMajor(sb), "b"),
           Result(dr), NullOptional, Int64(0, 1), p) :
        da \in InDtypes, db \in InDtypes,
        sa \in {<<1, k>> : k \in Extents} \cup {<<MaxSize>>, <<1, MaxSize, MaxSize>>},
        sb \in {<<j, 1>> : j \in Extents} \cup {<<MaxSize>>, <<1, MaxSize, MaxSize>>},
        dr \in OutDtypes, p \in 0..MaxPad }

\* Calls that exercise the dimensions: well-typed n x k and (k + p) x m
\* operands, each stored row by row or column by column.
DimensionCalls ==
    { Call(Tensor(kFloat8_e4m3fnuz, <<nkm[1], nkm[2]>>,
                  IF la THEN RowMajor(<<nkm[1], nkm[2]>>)
                  ELSE ColMajor(<<nkm[1], nkm[2]>>), "a"),
           Tensor(kFloat8_e4m3fnuz, <<nkm[2] + p, nkm[3]>>,
                  IF lb THEN RowMajor(<<nkm[2] + p, nkm[3]>>)
                  ELSE ColMajor(<<nkm[2] + p, nkm[3]>>), "b"),
           Result(kFloat16), NullOptional, Int64(0, 1), p) :
        nkm \in Extents \X Extents \X Extents, p \in 0..MaxPad,
        la \in BOOLEAN, lb \in BOOLEAN }

\* Calls that exercise the stride inference: a MaxSize x 1 operand a and a
\* (1 + MaxPad) x MaxSize operand b with every pair of strides.
StrideCalls ==
    { Call(Tensor(kFloat8_e4m3fnuz, <<MaxSize, 1>>, sa, "a"),
           Tensor(kFloat8_e4m3fnuz, <<1 + MaxPad, MaxSize>>, sb, "b"),
           Result(kFloat8_e4m3fnuz), NullOptional, Int64(0, 1), MaxPad) :
        sa \in Strides \X Strides, sb \in Strides \X Strides }

\* Calls that exercise the algorithm selection: one well-formed product
\* with every algo_idx and with and without scale_result.
FlowCalls ==
    { Call(Tensor(kFloat8_e4m3fnuz, <<MaxSize, MaxSize>>, <<MaxSize, 1>>, "a"),
           Tensor(kFloat8_e4m3fnuz, <<MaxSize, MaxSize>>, <<1, MaxSize>>, "b"),
           Result(kBFloat16), sr, Int64(h, l), 0) :
        sr \in ScaleResults, h \in 0..MaxHi, l \in 0..MaxAlgo }

Calls == ValidationCalls \cup DimensionCalls \cup StrideCalls \cup FlowCalls

\* ----------------------------------------------------- the specifications
Fp8MmCall(calls) ==
    \E c \in calls :
        fp8_mm(c.a, c.b, c.result, c.scale_a, c.scale_b, c.scale_result,
               c.algo_idx, c.padding_size)

InitStatics ==
    /\ workspace = 0
    /\ workspace_size = 0
    /\ buffers = <<>>
    /\ proc = "running"
    /\ pc = "idle"
    /\ frame = NullFrame

\* A process started without HIPBLASLT_WORKSPACE_SIZE, making any call.
Init ==
    /\ env = [set |-> FALSE, str |-> <<>>]
    /\ InitStatics

Next ==
    \/ create_workspace
    \/ Fp8MmCall(Calls)
    \/ SetProblem
    \/ AlgoGetHeuristic
    \/ GetAlgosFromIndex
    \/ Initialize
    \/ Run
    \/ Return

Spec == Init /\ [][Next]_vars

\* A process started with any value of HIPBLASLT_WORKSPACE_SIZE, making the
\* calls that differ in how the scratch buffer is used.
InitWorkspace ==
    /\ env \in EnvValues
    /\ InitStatics

NextWorkspace ==
    \/ create_workspace
    \/ Fp8MmCall(FlowCalls)
    \/ SetProblem
    \/ AlgoGetHeuristic
    \/ GetAlgosFromIndex
    \/ Initialize
    \/ Run
    \/ Return

SpecWorkspace == InitWorkspace /\ [][NextWorkspace]_vars

\* ================================================================ claims
CheckMessages ==
    {"The input tensors type should be float8_e4m3fnuz.",
     "Input tensors must be 2-D.",
     "a dim 1 must match b dim 0.",
     "Only float16, bfloat16 or float8_e4m3fnuz are supported as the output dtype."}

\* The call in progress was ended by one of the four checks.
Rejected == pc = "raised" /\ frame.error \in CheckMessages

VendorOps ==
    {"setProblem", "algoGetHeuristic", "getAlgosFromIndex", "initialize", "run"}

NoVendorOp ==
    /\ frame.ops = <<>>
    /\ frame.handed = <<>>
    /\ frame.request = <<>>
    /\ frame.algoIndex = <<>>
    /\ frame.init = <<>>
    /\ frame.launched = 0

\* Some condition the checks are there to refuse holds of the arguments.
BadArguments ==
    \/ frame.a.dtype # kFloat8_e4m3fnuz
    \/ frame.b.dtype # kFloat8_e4m3fnuz
    \/ dim(frame.a) # 2
    \/ dim(frame.b) # 2
    \/ /\ dim(frame.a) = 2
       /\ dim(frame.b) = 2
       /\ frame.a.sizes[2] # frame.b.sizes[1] - frame.padding_size
    \/ frame.result.dtype \notin {kFloat16, kBFloat16, kFloat8_e4m3fnuz}

\* C1: a call is ended by one of the four checks, with no vendor operation
\* performed, exactly when an input is not float8_e4m3fnuz, an input is not
\* 2-D, a.size(1) differs from b.size(0) - padding_size, or the result dtype
\* is none of float16, bfloat16, float8_e4m3fnuz.
C1_ChecksRejectExactlyBadCalls ==
    pc # "idle" =>
        /\ BadArguments <=> Rejected
        /\ Rejected => NoVendorOp

\* A call refused only because of the padding: a.size(1) = b.size(0).
C1_Witness ==
    /\ Rejected
    /\ frame.error = "a dim 1 must match b dim 0."
    /\ frame.padding_size > 0
    /\ frame.a.sizes[2] = frame.b.sizes[1]

\* -------------------------------------------------------------------- C2
Zero64 == Int64(0, 0)

\* C2: when gemm.initialize has been called, then, for algo_idx # 0, no
\* heuristic query was made, the index the library was asked for is exactly
\* the caller's algo_idx and the algorithm initialized is the one returned
\* for it; for algo_idx = 0, one solution was requested with the maximum
\* workspace set to workspace_size and the algorithm initialized is the one
\* whose index is that of the first heuristic result.
C2_ExplicitOrHeuristic ==
    frame.init # <<>> =>
        IF frame.algo_idx_arg # Zero64
        THEN /\ frame.request = <<>>
             /\ \A i \in 1..Len(frame.ops) : frame.ops[i] # "algoGetHeuristic"
             /\ WidenInt(frame.algoIndex[1]) = frame.algo_idx_arg
             /\ frame.tmpAlgo # <<>> => frame.init[1].algo = frame.tmpAlgo[1].algo
        ELSE /\ frame.request = <<[requestedAlgoCount |-> 1,
                                   maxWorkspaceBytes |-> workspace_size]>>
             /\ frame.heuristicResult # <<>>
             /\ frame.algoIndex[1] = getIndexFromAlgo(frame.heuristicResult[1].algo)
             /\ frame.tmpAlgo # <<>> =>
                    getIndexFromAlgo(frame.init[1].algo)
                        = getIndexFromAlgo(frame.heuristicResult[1].algo)

\* -------------------------------------------------------------------- C3
\* C3: after any sequence of calls at most one scratch buffer has ever been
\* allocated, and `workspace` refers to it.
C3_SingleBuffer ==
    proc = "running" =>
        /\ Len(buffers) <= 1
        /\ Len(buffers) = 1 => workspace = 1

\* -------------------------------------------------------------------- C4
IsPrefix(s, t) ==
    /\ Len(s) <= Len(t)
    /\ \A i \in 1..Len(s) : s[i] = t[i]

\* The vendor operations of one call, each once, in the order of the source.
ExpectedOrder ==
    <<"setProblem">>
        \o (IF frame.algo_idx_arg = Zero64 THEN <<"algoGetHeuristic">> ELSE <<>>)
        \o <<"getAlgosFromIndex", "initialize", "run">>

\* C4: the vendor operations of a call happen in the fixed order, each at
\* most once; run is invoked only after every earlier step reported success;
\* and once an operation has reported failure the call has ended (exit or
\* raised error) with no kernel launched.
C4_OrderedOnceNoRetry ==
    pc # "idle" =>
        /\ IsPrefix(frame.ops, ExpectedOrder)
        /\ frame.launched <= 1
        /\ frame.failed # "" =>
              /\ frame.launched = 0
              /\ proc = "exited" \/ pc = "raised"

\* -------------------------------------------------------------------- C5
\* The heuristic query of the call in progress succeeded with no result.
HeuristicCameBackEmpty ==
    /\ pc # "idle"
    /\ frame.request # <<>>
    /\ frame.failed # "algoGetHeuristic"
    /\ frame.heuristicResult = <<>>

\* C5: when the heuristic query succeeds with an empty list, the call fails
\* with "No valid solution found!", no element of the list having been read
\* and none of getAlgosFromIndex, initialize, run having been reached.
C5_EmptyHeuristicRejected ==
    HeuristicCameBackEmpty =>
        /\ pc = "raised"
        /\ frame.error = "No valid solution found!"
        /\ frame.heurRead = "none"
        /\ frame.ops = <<"setProblem", "algoGetHeuristic">>

\* -------------------------------------------------------------------- C6
\* The call in progress went past the four checks.
PassedChecks == pc # "idle" /\ ~Rejected

\* The call in progress was stopped at the stride inference.
StoppedAtStrides == pc = "strides" /\ proc = "aborted"

\* C6: for an operand that passed the checks the flag is false in the first
\* stride pattern, true in the second, and with any other strides the call
\* is stopped with no vendor operation performed.
C6_TransposeFromStrides ==
    PassedChecks =>
        /\ (StrideBranch(frame.a) = "unusual" \/ StrideBranch(frame.b) = "unusual")
              => StoppedAtStrides /\ NoVendorOp
        /\ ~StoppedAtStrides =>
              /\ StrideBranch(frame.a) = "N" => frame.transpose.a = FALSE
              /\ StrideBranch(frame.a) = "T" => frame.transpose.a = TRUE
              /\ StrideBranch(frame.b) = "N" => frame.transpose.b = FALSE
              /\ StrideBranch(frame.b) = "T" => frame.transpose.b = TRUE

\* -------------------------------------------------------------------- C7
\* The call in progress handed a problem to the library, and both operands
\* have one of the two stride patterns.
AcceptedAndHanded ==
    /\ frame.handed # <<>>
    /\ StrideBranch(frame.a) # "unusual"
    /\ StrideBranch(frame.b) # "unusual"

\* C7: the problem handed to the library is the transposed product: slot A
\* holds b and slot B holds a, op_A is T exactly when b was inferred not
\* transposed and op_B is T exactly when a was, m = b.size(1),
\* n = a.size(0), k = b.size(0) - padding_size = a.size(1), batch count 1,
\* alpha 1, beta 0, and the result buffer is both C and D.
C7_TransposedProduct ==
    AcceptedAndHanded =>
        LET h == frame.handed[1] IN
        /\ h.inputs.a = frame.b.data_ptr
        /\ h.inputs.b = frame.a.data_ptr
        /\ (h.problem.op_a = HIPBLAS_OP_T) <=> (StrideBranch(frame.b) = "N")
        /\ (h.problem.op_b = HIPBLAS_OP_T) <=> (StrideBranch(frame.a) = "N")
        /\ h.problem.op_a \in {HIPBLAS_OP_T, HIPBLAS_OP_N}
        /\ h.problem.op_b \in {HIPBLAS_OP_T, HIPBLAS_OP_N}
        /\ h.m = frame.b.sizes[2]
        /\ h.n = frame.a.sizes[1]
        /\ h.k = frame.b.sizes[1] - frame.padding_size
        /\ h.k = frame.a.sizes[2]
        /\ h.layout.batch_count = 1
        /\ h.inputs.alpha = 1
        /\ h.inputs.beta = 0
        /\ h.inputs.c = frame.result.data_ptr
        /\ h.inputs.d = frame.result.data_ptr

\* A padded product with m, n, k pairwise different in some pair, and the
\* two operands stored differently, has been handed over and launched.
C7_Witness ==
    /\ AcceptedAndHanded
    /\ pc = "returned"
    /\ frame.padding_size > 0
    /\ frame.handed[1].m # frame.handed[1].n
    /\ frame.handed[1].n # frame.handed[1].k
    /\ frame.handed[1].problem.op_a # frame.handed[1].problem.op_b

\* -------------------------------------------------------------------- C8
\* The scale tensor of the input whose data is at pointer p.
ScaleOf(p) ==
    IF p = frame.a.data_ptr THEN frame.scale_a.data_ptr
    ELSE frame.scale_b.data_ptr

\* C8: scaleA is the scale of the input whose data is in slot A, scaleB the
\* scale of the input whose data is in slot B, and scaleD is scale_result's
\* buffer when given and null otherwise.
C8_ScalesFollowData ==
    frame.handed # <<>> =>
        LET h == frame.handed[1] IN
        /\ h.inputs.scaleA = ScaleOf(h.inputs.a)
        /\ h.inputs.scaleB = ScaleOf(h.inputs.b)
        /\ h.inputs.scaleD = IF frame.scale_result.has_value
                             THEN frame.scale_result.data_ptr
                             ELSE nullptr

\* -------------------------------------------------------------------- C9
\* Bytes behind a value of `workspace`.
BufferSize(ptr) == IF ptr = 0 THEN 0 ELSE buffers[ptr]

\* What holds of the scratch buffer in every state of a running process.
WorkspaceCovers ==
    proc = "running" =>
        /\ ULt(0, workspace_size) =>
              /\ workspace # 0
              /\ ULe(workspace_size, BufferSize(workspace))
        /\ frame.init # <<>> =>
              /\ ULe(frame.gemmPref, BufferSize(frame.init[1].workspace))
              /\ frame.init[1].workspace = 0 => frame.gemmPref = 0
        /\ frame.request # <<>> =>
              frame.request[1].maxWorkspaceBytes = frame.gemmPref

\* C9: the bytes fp8_mm advertises never exceed the buffer it passes to
\* initialize: workspace_size > 0 implies a non-null `workspace` of at least
\* that size, a null `workspace` goes with an advertised size of 0, and no
\* step of fp8_mm changes `workspace` or `workspace_size`.
C9_AdvertisedFitsBuffer ==
    /\ []WorkspaceCovers
    /\ [][(pc # "idle" \/ pc' # "idle")
            => UNCHANGED <<workspace, workspace_size>>]_vars

\* A heuristic call after create_workspace: a positive size was advertised
\* and a real buffer passed to initialize.
C9_Witness ==
    /\ proc = "running"
    /\ frame.init # <<>>
    /\ frame.request # <<>>
    /\ frame.init[1].workspace # 0
    /\ ULt(0, frame.gemmPref)

\* ------------------------------------------------------------------- C10
\* The stride of x between consecutive columns (pattern "N") or rows ("T").
NonUnitStride(x) ==
    IF StrideBranch(x) = "N" THEN x.strides[2] ELSE x.strides[1]

\* C10: for every accepted layout lda is the non-unit stride of b and ldb
\* the non-unit stride of a.
C10_LeadingDimsAreStrides ==
    AcceptedAndHanded =>
        /\ frame.handed[1].layout.lda = NonUnitStride(frame.b)
        /\ frame.handed[1].layout.ldb = NonUnitStride(frame.a)

====
